---- MODULE Spec2Model ----
(***************************************************************************)
(* The chat widget of src/index.tsx: the transcript (messages), the input  *)
(* box (userInput), the in-flight flag (isLoading), the session handle     *)
(* (chatRef) and the asynchronous handler handleSendMessage, cut into one  *)
(* action per stretch of code that runs between two awaits.                *)
(*                                                                         *)
(* Strings are TLA+ strings; a JavaScript value that may be undefined is a *)
(* record [type, val].                                                     *)
(***************************************************************************)
EXTENDS Integers, Sequences, FiniteSets, TLC

VARIABLES
    messages,   \* useState<Message[]>: the transcript
    userInput,  \* useState(""): the text of the input box
    isLoading,  \* useState(false)
    chatRef,    \* useRef<Chat | null>: TRUE once the session exists
    calls,      \* the sendMessage promises not yet settled, each with the
                \* locals of the handler invocation that awaits it
    turnCount,  \* number of handler invocations that passed the guard
    turn,       \* what the latest such invocation has done so far
    event       \* the handler that ran last

vars == <<messages, userInput, isLoading, chatRef, calls, turnCount, turn, event>>

----------------------------------------------------------------------------
(* Bounds of the model *)

MaxTurns == 2

MaxOrderDraws == 3

----------------------------------------------------------------------------
(* JavaScript values *)

Str(s) == [type |-> "string", val |-> s]

UndefinedText == [type |-> "undefined", val |-> ""]

Arr(a) == [type |-> "array", val |-> a]

UndefinedArray == [type |-> "undefined", val |-> <<>>]

\* ToBoolean of a string-or-undefined value, as used by `||`
Truthy(v) == v.type = "string" /\ v.val # ""

\* a ?? b in place of a || b
OrElseNullish(a, b) == IF a.type # "undefined" THEN a ELSE b

\* a || b
OrElse(a, b) == IF Truthy(a) THEN a ELSE b

\* The WhiteSpace and LineTerminator code points that String.prototype.trim
\* removes: TAB, LF, VT, FF, CR, SP, NBSP, U+1680 and U+FEFF. The others (U+2000
\* to U+200A, U+2028, U+2029, U+202F, U+205F and U+3000) cannot be written in a
\* string of this language, so no text of the model holds them.
IsWhiteSpace(c) ==
    c \in {"\t", "\n", "", "\f", "\r", " ", " ", " ", "﻿"}

RECURSIVE TrimStart(_)
TrimStart(s) ==
    IF s = "" THEN ""
    ELSE IF IsWhiteSpace(Head(s)) THEN TrimStart(Tail(s)) ELSE s

RECURSIVE TrimEnd(_)
TrimEnd(s) ==
    IF s = "" THEN ""
    ELSE IF IsWhiteSpace(SubSeq(s, Len(s), Len(s)))
         THEN TrimEnd(SubSeq(s, 1, Len(s) - 1))
         ELSE s

\* The text taken as it is
TrimNone(s) == s

\* String.prototype.trim
Trim(s) == TrimEnd(TrimStart(s))

\* Array.prototype.join on an array of strings
RECURSIVE Join(_, _)
Join(a, sep) ==
    IF Len(a) = 0 THEN ""
    ELSE IF Len(a) = 1 THEN a[1]
    ELSE a[1] \o sep \o Join(Tail(a), sep)

\* prev.slice(0, -2)
DropLastTwo(prev) == IF Len(prev) < 2 THEN <<>> ELSE SubSeq(prev, 1, Len(prev) - 2)

\* prev.slice(0, -1)
DropLast(prev) == IF Len(prev) = 0 THEN <<>> ELSE SubSeq(prev, 1, Len(prev) - 1)

----------------------------------------------------------------------------
(* Messages *)

WelcomeText == "Hello! Welcome to 'The Golden Spoon'. What can I get for you today?"

ErrorText == "Sorry, something went wrong. Please try again."

UserMessage(text) == [sender |-> "user", text |-> Str(text)]

LoadingMessage == [sender |-> "loading", text |-> Str("...")]

BotMessage(v) == [sender |-> "bot", text |-> v]

ErrorMessage == BotMessage(Str(ErrorText))

\* Math.floor(Math.random() * 10000) ranges over 0 .. OrderNumberLimit - 1
OrderNumberLimit == 10000

OrderNumbers == 0 .. (OrderNumberLimit - 1)

\* The order numbers the model draws: MaxOrderDraws of them, spread evenly from
\* the least to the greatest
OrderNumberDraws ==
    {((OrderNumberLimit - 1) * i) \div (MaxOrderDraws - 1) : i \in 0 .. (MaxOrderDraws - 1)}

ConfirmationMessage(items, orderNumber) ==
    "Great! I've placed an order for: " \o Join(items, ", ")
        \o ". Your order number is #" \o ToString(orderNumber)
        \o ". Is there anything else?"

ToolResultText(orderNumber) ==
    "Order placed successfully. Order number: " \o ToString(orderNumber)

----------------------------------------------------------------------------
(* The service: what a sendMessage promise can settle with *)

FunctionCall(id, name, items) == [id |-> id, name |-> name, args |-> [items |-> items]]

Response(functionCalls, text) == [functionCalls |-> functionCalls, text |-> text]

PizzaCoke == Arr(<<"Pizza", "Coke">>)

\* Replies to a user text
MessageResponses ==
    { Response(UndefinedArray, Str("We have Pizza and Coke.")),
      Response(Arr(<<>>), UndefinedText),
      Response(Arr(<<FunctionCall("fc-1", "placeOrder", PizzaCoke)>>), UndefinedText),
      Response(Arr(<<FunctionCall("fc-2", "placeOrder", PizzaCoke)>>), Str("One moment.")),
      Response(Arr(<<FunctionCall("fc-1", "placeOrder", Arr(<<>>))>>), UndefinedText),
      Response(Arr(<<FunctionCall("fc-1", "placeOrder", UndefinedArray)>>), UndefinedText),
      Response(Arr(<<FunctionCall("fc-1", "cancelOrder", PizzaCoke)>>), UndefinedText),
      Response(Arr(<<FunctionCall("fc-1", "placeOrder", Arr(<<"Pizza">>)),
                     FunctionCall("fc-2", "placeOrder", Arr(<<"Coke">>))>>), UndefinedText),
      Response(Arr(<<FunctionCall("fc-1", "cancelOrder", Arr(<<"Pizza">>)),
                     FunctionCall("fc-2", "placeOrder", Arr(<<"Coke">>))>>), UndefinedText) }

\* Replies to a tool result
ToolResponses ==
    { Response(UndefinedArray, Str("Your order is in.")),
      Response(UndefinedArray, Str("")),
      Response(UndefinedArray, UndefinedText) }

\* Texts the user can type
Inputs == {"", " \r\n", " 1 Pizza "}

----------------------------------------------------------------------------
(* The requests and the handler invocations that await them *)

MessageRequest(text) ==
    [kind |-> "message", message |-> text, id |-> "", name |-> "", result |-> ""]

\* A tool result that names the function where the correlation id belongs
ToolRequestWrongId(fc, orderNumber) ==
    [kind |-> "toolResponse", message |-> "", id |-> fc.name, name |-> fc.name,
     result |-> ToolResultText(orderNumber)]

\* lines 96-104: the tool result, with the id and the name of the function call
ToolRequest(fc, orderNumber) ==
    [kind |-> "toolResponse", message |-> "", id |-> fc.id, name |-> fc.name,
     result |-> ToolResultText(orderNumber)]

\* A suspended invocation of handleSendMessage
Frame(n, request, confirmationMessage) ==
    [turn |-> n, request |-> request, confirmationMessage |-> confirmationMessage]

NoResponse == Response(UndefinedArray, UndefinedText)

\* What the latest turn has done: its input, the transcript it started from,
\* the requests it issued, the replies it saw, the order numbers it drew, how
\* it ended, and how the turn before it ended
NewTurn(n, text, before, prior) ==
    [n |-> n, input |-> text, before |-> before, prior |-> prior,
     state |-> "Sending", cause |-> "none", requests |-> <<>>,
     response |-> NoResponse, answered |-> FALSE,
     toolResponse |-> NoResponse, toolAnswered |-> FALSE,
     orderNumbers |-> <<>>, confirmationMessage |-> "", final |-> UndefinedText,
     priorIds |-> {}]

\* The correlation ids sent in tool results up to and including turn t
SentIds(t) ==
    t.priorIds \cup {t.requests[i].id :
                        i \in {j \in 1 .. Len(t.requests) :
                                  t.requests[j].kind = "toolResponse"}}

----------------------------------------------------------------------------
(* Initial state: the component's first render, before its effects *)

Init ==
    /\ messages = <<>>
    /\ userInput = ""
    /\ isLoading = FALSE
    /\ chatRef = FALSE
    /\ calls = {}
    /\ turnCount = 0
    /\ turn = [NewTurn(0, "", <<>>, "none") EXCEPT !.state = "Idle"]
    /\ event = "render"

\* useEffect(() => initChat(), [])
InitChat ==
    /\ event = "render"
    /\ chatRef' = TRUE
    /\ messages' = <<BotMessage(Str(WelcomeText))>>
    /\ event' = "initChat"
    /\ UNCHANGED <<userInput, isLoading, calls, turnCount, turn>>

\* ai.chats.create of line 45 hands back no session: chatRef.current stays null,
\* and lines 55-60 still put the welcome message
InitChatNoSession ==
    /\ event = "render"
    /\ chatRef' = FALSE
    /\ messages' = <<BotMessage(Str(WelcomeText))>>
    /\ event' = "initChat"
    /\ UNCHANGED <<userInput, isLoading, calls, turnCount, turn>>

\* The effect of lines 43-63 has run: React runs it before it handles an event
Mounted == event # "render"

\* onChange of the input box
SetUserInput(text) ==
    /\ Mounted
    /\ userInput' = text
    /\ event' = "change"
    /\ UNCHANGED <<messages, isLoading, chatRef, calls, turnCount, turn>>

----------------------------------------------------------------------------
(* handleSendMessage *)

\* The guard of line 73 without its isLoading test
CanSendIgnoresLoading == Trim(userInput) # ""

\* line 73 does not return
CanSend == Trim(userInput) # "" /\ ~isLoading

\* The updater of line 76 without its loading record
AppendTurnNoPending(prev, text) == prev \o <<UserMessage(text)>>

\* line 76: (prev) => [...prev, userMessage, { sender: "loading", text: "..." }]
AppendTurn(prev, text) == prev \o <<UserMessage(text), LoadingMessage>>

\* The updater of lines 112 and 120 without its slice
ReplaceLastAppends(prev, message) == prev \o <<message>>

\* lines 112 and 120: (prev) => [...prev.slice(0, -1), message]
ReplaceLast(prev, message) == DropLast(prev) \o <<message>>

\* The last function call of the response taken in place of the first
LastFunctionCall(result) == result.functionCalls.val[Len(result.functionCalls.val)]

\* line 89: const fc = result.functionCalls[0]
FirstFunctionCall(result) == result.functionCalls.val[1]

\* The text of the response tested first, the function calls second
HasFunctionCallsAndNoText(result) ==
    /\ ~Truthy(result.text)
    /\ result.functionCalls.type = "array"
    /\ Len(result.functionCalls.val) > 0

\* result.functionCalls && result.functionCalls.length > 0
HasFunctionCalls(result) ==
    result.functionCalls.type = "array" /\ Len(result.functionCalls.val) > 0

\* Line 108 left out: botResponseText keeps its initial ""
PlainTextDropped(result) == Str("")

\* line 108: botResponseText = result.text
PlainText(result) == result.text

\* The history of the latest turn, changed only by its own invocation
Record(f, new) == turn' = IF f.turn = turn.n THEN new ELSE turn

\* The reply shown with setIsLoading(false) called in the catch block only
FinishStaysLoading(f, text) ==
    /\ messages' = ReplaceLast(messages, BotMessage(text))
    /\ UNCHANGED isLoading
    /\ calls' = calls \ {f}

\* lines 111-112 and 121-123: the reply replaces the last record; React commits
\* the two state updates of one continuation in one render
Finish(f, text) ==
    /\ messages' = ReplaceLast(messages, BotMessage(text))
    /\ isLoading' = FALSE
    /\ calls' = calls \ {f}

\* A catch block that logs the error and leaves the transcript alone
FailLeavesPending(f) ==
    /\ UNCHANGED messages
    /\ isLoading' = FALSE
    /\ calls' = calls \ {f}

\* A catch block with no finally block after it
FailStaysLoading(f) ==
    /\ messages' = ReplaceLast(messages, ErrorMessage)
    /\ UNCHANGED isLoading
    /\ calls' = calls \ {f}

\* A catch block that leaves the request in flight, to be tried again
FailRetries(f) ==
    /\ UNCHANGED <<messages, isLoading, calls>>

\* lines 114-123: the catch block and the finally block
Fail(f) ==
    /\ messages' = ReplaceLast(messages, ErrorMessage)
    /\ isLoading' = FALSE
    /\ calls' = calls \ {f}

\* Line 82 thrown outside the try block: the record stays pending
NotInitializedUncaught ==
    /\ messages' = AppendTurn(messages, userInput)
    /\ isLoading' = TRUE
    /\ UNCHANGED calls

\* lines 75-83 and 114-123 with chatRef.current null: line 82 throws, and the
\* catch and finally blocks run in the same event as lines 75-78
NotInitialized ==
    /\ messages' = ReplaceLast(AppendTurn(messages, userInput), ErrorMessage)
    /\ isLoading' = FALSE
    /\ UNCHANGED calls

\* onSubmit, up to the first await (lines 71-85)
Submit ==
    /\ Mounted
    /\ event' = "submit"
    /\ IF ~CanSend
       THEN UNCHANGED <<messages, userInput, isLoading, chatRef, calls, turnCount, turn>>
       ELSE /\ turnCount < MaxTurns
            /\ turnCount' = turnCount + 1
            /\ userInput' = ""
            /\ UNCHANGED chatRef
            /\ IF ~chatRef
               THEN /\ NotInitialized
                    /\ turn' = [NewTurn(turnCount + 1, userInput, messages, turn.cause)
                                    EXCEPT !.state = "Failed", !.cause = "threw",
                                           !.final = Str(ErrorText),
                                           !.priorIds = SentIds(turn)]
               ELSE /\ messages' = AppendTurn(messages, userInput)
                    /\ isLoading' = TRUE
                    /\ calls' = calls \cup
                          {Frame(turnCount + 1, MessageRequest(userInput), "")}
                    /\ turn' = [NewTurn(turnCount + 1, userInput, messages, turn.cause)
                                    EXCEPT !.requests = <<MessageRequest(userInput)>>,
                                           !.priorIds = SentIds(turn)]

\* The promise of line 85 resolves; lines 86-112 and 121-123 run, or the
\* handler suspends again at line 96
ResolveMessage(f, result) ==
    /\ f.request.kind = "message"
    /\ event' = "resolve"
    /\ UNCHANGED <<userInput, chatRef, turnCount>>
    /\ LET seen == [turn EXCEPT !.response = result, !.answered = TRUE] IN
       IF HasFunctionCalls(result)
       THEN LET fc == FirstFunctionCall(result) IN
            IF fc.name = "placeOrder"
            THEN \E orderNumber \in OrderNumberDraws :
                 LET items == fc.args.items
                     drawn == [seen EXCEPT !.orderNumbers = Append(@, orderNumber)]
                 IN  IF items.type # "array"
                     THEN \* items.join throws a TypeError at line 93
                          /\ Fail(f)
                          /\ Record(f, [drawn EXCEPT !.state = "Failed",
                                                     !.cause = "threw",
                                                     !.final = Str(ErrorText)])
                     ELSE LET confirmationMessage ==
                                  ConfirmationMessage(items.val, orderNumber)
                              request == ToolRequest(fc, orderNumber)
                          IN  /\ calls' = (calls \ {f}) \cup
                                     {Frame(f.turn, request, confirmationMessage)}
                              /\ UNCHANGED <<messages, isLoading>>
                              /\ Record(f, [drawn EXCEPT
                                     !.state = "AwaitingToolResult",
                                     !.requests = Append(@, request),
                                     !.confirmationMessage = confirmationMessage])
            ELSE \* botResponseText is still ""
                 /\ Finish(f, Str(""))
                 /\ Record(f, [seen EXCEPT !.state = "Resolved", !.final = Str("")])
       ELSE /\ Finish(f, PlainText(result))
            /\ Record(f, [seen EXCEPT !.state = "Resolved",
                                      !.final = PlainText(result)])

\* The promise of line 96 resolves; lines 105, 111-112 and 121-123 run
ResolveTool(f, toolResponseResult) ==
    /\ f.request.kind = "toolResponse"
    /\ event' = "resolve"
    /\ UNCHANGED <<userInput, chatRef, turnCount>>
    /\ LET botResponseText ==
               OrElse(toolResponseResult.text, Str(f.confirmationMessage))
       IN  /\ Finish(f, botResponseText)
           /\ Record(f, [turn EXCEPT !.toolResponse = toolResponseResult,
                                     !.toolAnswered = TRUE,
                                     !.state = "Resolved",
                                     !.final = botResponseText])

\* The promise of line 85 or of line 96 rejects; lines 114-123 run
Reject(f) ==
    /\ event' = "reject"
    /\ UNCHANGED <<userInput, chatRef, turnCount>>
    /\ Fail(f)
    /\ Record(f, [turn EXCEPT !.state = "Failed", !.cause = "rejected",
                               !.final = Str(ErrorText)])

\* A remote call settles
Settle ==
    \E f \in calls :
        \/ \E result \in MessageResponses : ResolveMessage(f, result)
        \/ \E result \in ToolResponses : ResolveTool(f, result)
        \/ Reject(f)

Next ==
    \/ InitChat
    \/ \E text \in Inputs : SetUserInput(text)
    \/ Submit
    \/ Settle

Spec == Init /\ [][Next]_vars

\* Every remote call is eventually settled
LiveSpec == Spec /\ WF_vars(Settle)

\* The widget when the session may be missing after the effect has run
NextSessionless ==
    \/ InitChat
    \/ InitChatNoSession
    \/ \E text \in Inputs : SetUserInput(text)
    \/ Submit
    \/ Settle

SessionlessSpec == Init /\ [][NextSessionless]_vars

----------------------------------------------------------------------------
(* Vocabulary of the properties *)

Last == messages[Len(messages)]

PendingIndices == {i \in 1 .. Len(messages) : messages[i].sender = "loading"}

HasPending == PendingIndices # {}

Terminal == {"Resolved", "Failed"}

\* sub occurs in s
Contains(s, sub) ==
    \E i \in 1 .. (Len(s) - Len(sub) + 1) : SubSeq(s, i, i + Len(sub) - 1) = sub

\* The requests of the latest turn that carry a tool result
ToolSends == {i \in 1 .. Len(turn.requests) : turn.requests[i].kind = "toolResponse"}

\* The latest turn was answered with a function call / with plain text
ActionRequested == turn.answered /\ HasFunctionCalls(turn.response)

PlainTextAnswered == turn.answered /\ ~HasFunctionCalls(turn.response)

FirstCall == turn.response.functionCalls.val[1]

----------------------------------------------------------------------------
(* Properties *)

\* C1: in every reachable state the transcript holds at most one pending
\* ("loading") record, and a pending record is the last record.
C1_AtMostOnePendingAndLast ==
    /\ Cardinality(PendingIndices) <= 1
    /\ \A i \in PendingIndices : i = Len(messages)

\* A pending record of the second turn, shown while its tool result is in flight
C1_Witness ==
    /\ turn.n = 2
    /\ turn.state = "AwaitingToolResult"
    /\ Len(messages) = 5
    /\ Last.sender = "loading"

\* C2: a submit event that arrives while isLoading is true appends nothing and
\* issues no remote call; at most one remote call is outstanding at any time, and
\* a turn starts only when the turn before it is Resolved or Failed.
C2_SubmitInFlightIsNoOp ==
    /\ [][(event' = "submit" /\ isLoading)
            => UNCHANGED <<messages, calls, isLoading, turnCount, turn>>]_vars
    /\ [](Cardinality(calls) <= 1)
    /\ [][turnCount' # turnCount
            => (calls = {} /\ turn.state \in Terminal \cup {"Idle"})]_vars

\* A submit of non-blank text was ignored while a call was outstanding
C2_Witness ==
    /\ event = "submit"
    /\ isLoading
    /\ Trim(userInput) # ""
    /\ Cardinality(calls) = 1

\* C3: if every remote call is eventually settled, a pending record in the
\* transcript is eventually replaced: the transcript then ends with a bot record
\* and holds no pending record.
C3_PendingEventuallyReplaced ==
    HasPending ~> (~HasPending /\ Len(messages) > 0 /\ Last.sender = "bot")

\* The pending record of a turn with two remote calls has been replaced
C3_Witness ==
    /\ turn.toolAnswered
    /\ ~HasPending
    /\ Last.sender = "bot"

\* C4: when a remote call of a turn rejects, the pending record is replaced with
\* exactly the fixed apology, isLoading is false again, and the next submission of
\* non-blank text starts a new turn: user record, pending record, one remote call.
C4_RejectionFailsTurnAndReenables ==
    /\ [](event = "reject" =>
            /\ turn.state = "Failed"
            /\ ~isLoading
            /\ calls = {}
            /\ messages = turn.before \o
                 << [sender |-> "user", text |-> Str(turn.input)],
                    [sender |-> "bot",
                     text |-> Str("Sorry, something went wrong. Please try again.")] >>)
    /\ [][(turn.cause = "rejected" /\ event' = "submit" /\ Trim(userInput) # "")
            => /\ messages' = messages \o
                     << [sender |-> "user", text |-> Str(userInput)],
                        [sender |-> "loading", text |-> Str("...")] >>
               /\ isLoading'
               /\ calls' = {Frame(turnCount + 1, MessageRequest(userInput), "")}
               /\ turn'.state = "Sending"]_vars

\* The turn after a rejected tool-result call has run to Resolved
C4_Witness ==
    /\ turn.prior = "rejected"
    /\ Len(turn.before) = 3
    /\ turn.before[3].text = Str("Sorry, something went wrong. Please try again.")
    /\ turn.state = "Resolved"
    /\ turn.toolAnswered

\* C5: a turn answered with a response without function calls is Resolved by that
\* answer: the pending record is replaced by one bot record holding the response's
\* text, no order number is drawn and no tool result is sent.
C5_PlainTextResolves ==
    PlainTextAnswered =>
        /\ turn.state = "Resolved"
        /\ messages = turn.before \o
              << [sender |-> "user", text |-> Str(turn.input)],
                 [sender |-> "bot", text |-> turn.response.text] >>
        /\ ~isLoading
        /\ turn.orderNumbers = <<>>
        /\ ToolSends = {}
        /\ Len(turn.requests) = 1

\* A plain-text answer is shown
C5_Witness ==
    /\ PlainTextAnswered
    /\ Last = [sender |-> "bot", text |-> Str("We have Pizza and Coke.")]

\* C6: in a placeOrder turn whose tool result was answered, the final bot record is
\* the answer's text when that is non-empty; otherwise it is the local confirmation,
\* which names every requested item and the order number sent in the tool result.
C6_FollowUpOrConfirmation ==
    turn.toolAnswered =>
        LET reply == turn.toolResponse.text
            items == FirstCall.args.items.val
        IN  /\ FirstCall.name = "placeOrder"
            /\ Last.sender = "bot"
            /\ messages = turn.before \o
                  << [sender |-> "user", text |-> Str(turn.input)], Last >>
            /\ (reply.type = "string" /\ reply.val # "") => Last.text = reply
            /\ ~(reply.type = "string" /\ reply.val # "") =>
                  /\ Last.text.type = "string"
                  /\ \A i \in 1 .. Len(items) : Contains(Last.text.val, items[i])
                  /\ Len(turn.orderNumbers) = 1
                  /\ LET n == turn.orderNumbers[1] IN
                        /\ n \in 0 .. (OrderNumberLimit - 1)
                        /\ turn.requests[2].result =
                              "Order placed successfully. Order number: " \o ToString(n)
                        /\ Contains(Last.text.val,
                                    "Your order number is #" \o ToString(n) \o ".")

\* An empty follow-up: the local confirmation is shown
C6_Witness ==
    /\ turn.toolAnswered
    /\ turn.toolResponse.text = Str("")
    /\ turn.requests[2].result = "Order placed successfully. Order number: 9999"
    /\ Last.text = Str("Great! I've placed an order for: Pizza, Coke. "
                         \o "Your order number is #9999. Is there anything else?")

\* C7: a finished turn answered with a function call drew one order number and sent
\* exactly one tool result; no turn sends more than one tool result, and a turn
\* answered with plain text sends none.
C7_ToolResultSentExactlyOnce ==
    /\ Cardinality(ToolSends) <= 1
    /\ PlainTextAnswered => ToolSends = {}
    /\ (ActionRequested /\ turn.state \in Terminal) =>
          (Cardinality(ToolSends) = 1 /\ Len(turn.orderNumbers) = 1)

\* C8: a turn answered with a function call that ends without an error ends with a
\* bot record whose text is non-empty.
C8_ActionTurnEndsNonEmpty ==
    (ActionRequested /\ turn.state = "Resolved") =>
        (Last.sender = "bot" /\ Last.text.type = "string" /\ Last.text.val # "")

\* C9: a submit event with empty or whitespace-only text changes neither the
\* transcript, nor the outstanding calls, nor isLoading, whatever the state.
C9_BlankSubmitIsNoOp ==
    [][(event' = "submit" /\ userInput \in {"", " ", "  ", "\t", " \n ", "\r", "\f", " \r\n"})
         => UNCHANGED <<messages, calls, isLoading, turnCount, turn, userInput>>]_vars

\* A whitespace-only text was submitted while idle and is still in the input box
C9_Witness ==
    /\ event = "submit"
    /\ userInput = " \r\n"
    /\ ~isLoading
    /\ turnCount = 1

\* C10: a turn whose placeOrder call has a missing or an empty items argument ends
\* in Failed: the pending record is replaced with the fixed fallback message.
C10_MalformedItemsFailTurn ==
    (/\ ActionRequested
     /\ turn.state \in Terminal
     /\ FirstCall.name = "placeOrder"
     /\ \/ FirstCall.args.items.type = "undefined"
        \/ FirstCall.args.items = Arr(<<>>))
    => /\ turn.state = "Failed"
       /\ Last = [sender |-> "bot",
                  text |-> Str("Sorry, something went wrong. Please try again.")]

\* C11: a submit of non-blank text while chatRef.current is null issues no remote
\* call, leaves the user record followed by the fixed fallback message, and leaves
\* isLoading false, so that the next submit is accepted again.
C11_NoSessionFailsTurn ==
    /\ []((Mounted /\ ~chatRef) => (calls = {} /\ ~isLoading /\ ~HasPending))
    /\ [][(Mounted /\ ~chatRef /\ event' = "submit" /\ Trim(userInput) # "")
            => /\ messages' = messages \o
                     << [sender |-> "user", text |-> Str(userInput)],
                        [sender |-> "bot",
                         text |-> Str("Sorry, something went wrong. Please try again.")] >>
               /\ ~isLoading'
               /\ calls' = {}
               /\ turn'.requests = <<>>
               /\ turnCount' = turnCount + 1]_vars

\* Two submissions in a row were failed by the readiness check
C11_Witness ==
    /\ ~chatRef
    /\ event = "submit"
    /\ turn.n = 2
    /\ turn.cause = "threw"
    /\ turn.prior = "threw"
    /\ Len(messages) = 5
    /\ Last.text = Str("Sorry, something went wrong. Please try again.")

\* C12: every tool result, in flight or sent, carries the correlation id and the
\* name of the first function call of the response received in the same turn.
C12_ToolResultReusesCorrelationId ==
    /\ \A f \in calls :
          f.request.kind = "toolResponse" =>
             /\ f.turn = turn.n
             /\ ActionRequested
             /\ f.request.id = FirstCall.id
             /\ f.request.name = FirstCall.name
    /\ \A i \in ToolSends :
          /\ ActionRequested
          /\ turn.requests[i].id = FirstCall.id
          /\ turn.requests[i].name = FirstCall.name

\* The second turn sends the id "fc-1" after the first turn sent the id "fc-2"
C12_Witness ==
    /\ turn.n = 2
    /\ turn.priorIds = {"fc-2"}
    /\ ActionRequested
    /\ FirstCall.id = "fc-1"
    /\ \E f \in calls : f.request.kind = "toolResponse" /\ f.request.id = "fc-1"

\* C13: a response that carries a function call and a text is handled by its
\* function call: the placeOrder call is executed and answered, and the text of
\* that response is in no record that the turn puts in the transcript.
C13_FunctionCallTakesPrecedence ==
    (/\ turn.answered
     /\ turn.response.functionCalls.type = "array"
     /\ Len(turn.response.functionCalls.val) > 0
     /\ turn.response.text.type = "string"
     /\ turn.response.text.val # "")
    => /\ \A i \in (Len(turn.before) + 1) .. Len(messages) :
             messages[i].text # turn.response.text
       /\ turn.state # "Sending"
       /\ (/\ turn.response.functionCalls.val[1].name = "placeOrder"
           /\ turn.response.functionCalls.val[1].args.items.type = "array")
          => (Len(turn.orderNumbers) = 1 /\ Cardinality(ToolSends) = 1)

\* The turn answered with a function call and "One moment." has shown the reply
\* to its tool result
C13_Witness ==
    /\ turn.answered
    /\ turn.response.text = Str("One moment.")
    /\ turn.state = "Resolved"
    /\ Last = [sender |-> "bot", text |-> Str("Your order is in.")]

\* C14: every step leaves the transcript as it is, appends records at its end, or
\* replaces its last record, and the record replaced is the pending record of the
\* latest turn; so no user or bot record is removed, changed or moved.
C14_AppendOrReplacePending ==
    [][\/ messages' = messages
       \/ /\ Len(messages') > Len(messages)
          /\ SubSeq(messages', 1, Len(messages)) = messages
       \/ /\ Len(messages') = Len(messages)
          /\ Len(messages) = Len(turn.before) + 2
          /\ messages[Len(messages)] = [sender |-> "loading", text |-> Str("...")]
          /\ messages'[Len(messages)].sender = "bot"
          /\ SubSeq(messages', 1, Len(messages) - 1)
                = SubSeq(messages, 1, Len(messages) - 1)]_vars

\* The pending record of the second turn has been replaced
C14_Witness ==
    /\ event \in {"resolve", "reject"}
    /\ turn.n = 2
    /\ turn.state \in Terminal
    /\ Len(messages) = 5
    /\ messages[4].sender = "user"
    /\ messages[5].sender = "bot"

\* The requests of the latest turn that carry the user's text
MessageSends == {i \in 1 .. Len(turn.requests) : turn.requests[i].kind = "message"}

\* C15: a failed turn has no remote call in flight, and none is issued until a
\* submit of non-blank text starts the next turn; a turn sends the user's text at
\* most once and a tool result at most once.
C15_NoAutomaticRetry ==
    /\ [](turn.state = "Failed" => calls = {})
    /\ [](Cardinality(MessageSends) <= 1 /\ Cardinality(ToolSends) <= 1)
    /\ [][(turn.state = "Failed" /\ calls' # {})
            => /\ event' = "submit"
               /\ Trim(userInput) # ""
               /\ turn'.n = turn.n + 1
               /\ Cardinality(calls') = 1]_vars
    /\ [][event' = "reject" => (calls' \subseteq calls /\ turn'.requests = turn.requests)]_vars

\* The tool-result call was rejected, the user typed since, and nothing is in flight
C15_Witness ==
    /\ turn.cause = "rejected"
    /\ Len(turn.requests) = 2
    /\ event = "change"
    /\ userInput = " 1 Pizza "
    /\ calls = {}

\* C16: while a remote call is neither resolved nor rejected, the pending record
\* stays the last record and isLoading stays true: no step other than the settling
\* of that call changes them, and every submit in the meantime is ignored.
C16_HungCallStaysPending ==
    /\ [](calls # {} =>
            /\ isLoading
            /\ Len(messages) > 0
            /\ messages[Len(messages)] = [sender |-> "loading", text |-> Str("...")])
    /\ [][(calls # {} /\ calls' = calls)
            => (messages' = messages /\ isLoading' /\ turnCount' = turnCount)]_vars
    /\ [][(calls # {} /\ event' = "submit")
            => (calls' = calls /\ messages' = messages /\ isLoading')]_vars

\* The tool-result call is still in flight after a submit of non-blank text
C16_Witness ==
    /\ turn.state = "AwaitingToolResult"
    /\ calls # {}
    /\ event = "submit"
    /\ userInput = " 1 Pizza "
    /\ Last.sender = "loading"

\* C17: in every state between two events, isLoading is true exactly when the
\* last record of the transcript is a pending record.
C17_LoadingIffPendingLast ==
    isLoading <=> (Len(messages) > 0 /\ messages[Len(messages)].sender = "loading")

\* The flag and the pending record were cleared together by the second turn
C17_Witness ==
    /\ event = "resolve"
    /\ turn.n = 2
    /\ ~isLoading
    /\ Last.sender = "bot"
    /\ messages[Len(messages) - 1].sender = "user"

\* C18: once the effect has run the transcript is the welcome record followed by
\* one (user, bot) pair per finished turn, and by (user, pending) for a turn in
\* flight: 1 + 2k records when idle, 1 + 2k + 2 in flight, k the finished turns.
C18_WelcomeThenPairs ==
    Mounted =>
        LET k == IF isLoading THEN turnCount - 1 ELSE turnCount IN
        /\ k >= 0
        /\ isLoading <=> calls # {}
        /\ Len(messages) = IF isLoading THEN 1 + 2 * k + 2 ELSE 1 + 2 * k
        /\ messages[1] =
              [sender |-> "bot",
               text |-> Str("Hello! Welcome to 'The Golden Spoon'. "
                              \o "What can I get for you today?")]
        /\ \A i \in 1 .. k : /\ messages[2 * i].sender = "user"
                             /\ messages[2 * i + 1].sender = "bot"
        /\ isLoading => /\ messages[2 * k + 2].sender = "user"
                        /\ messages[2 * k + 3].sender = "loading"

\* Two turns have finished, the first one Failed and the second one Resolved
C18_Witness ==
    /\ turnCount = 2
    /\ ~isLoading
    /\ turn.prior # "none"
    /\ turn.state = "Resolved"
    /\ Len(messages) = 5

\* C19: a turn draws at most one order number and sends at most one tool result;
\* of a response with several function calls only the first is examined: the tool
\* result carries its id, the confirmation names its items only, and a first call
\* that is not placeOrder leaves the turn without order and without tool result.
C19_OnlyFirstFunctionCall ==
    /\ Len(turn.orderNumbers) <= 1
    /\ Cardinality(ToolSends) <= 1
    /\ (/\ turn.answered
        /\ turn.response.functionCalls.type = "array"
        /\ Len(turn.response.functionCalls.val) > 1)
       => LET fcs == turn.response.functionCalls.val IN
          /\ \A i \in ToolSends : \A j \in 2 .. Len(fcs) :
                /\ turn.requests[i].id = fcs[1].id
                /\ turn.requests[i].id # fcs[j].id
          /\ \A j \in 2 .. Len(fcs) : \A n \in 1 .. Len(fcs[j].args.items.val) :
                ~Contains(turn.confirmationMessage, fcs[j].args.items.val[n])
          /\ fcs[1].name # "placeOrder" =>
                (turn.orderNumbers = <<>> /\ ToolSends = {})
          /\ fcs[1].name = "placeOrder" =>
                (Len(turn.orderNumbers) = 1 /\ Cardinality(ToolSends) = 1)

\* Of the calls for Pizza and for Coke, the order for Pizza alone was confirmed
C19_Witness ==
    /\ turn.toolAnswered
    /\ Len(turn.response.functionCalls.val) = 2
    /\ turn.requests[2].id = "fc-1"
    /\ Last.text = Str("Great! I've placed an order for: Pizza. "
                         \o "Your order number is #0. Is there anything else?")

====
